---- MODULE Spec2Model ----
(***************************************************************************)
(* Model of the report intake store of the Heimdall frontend               *)
(* (apps/frontend/src/store/report_intake.ts): the fingerprint table, the  *)
(* type guesser, the HDF format validator, the converter dispatcher and    *)
(* the three ingestion entry points loadFile / loadText / loadExecJson.    *)
(***************************************************************************)
EXTENDS Integers, Sequences, FiniteSets, TLC

VARIABLES
    call,                   \* the pure-function call under examination
    ret,                    \* what that call produced
    pc,                     \* per load: where the asynchronous load stands
    opts,                   \* per load: the options it was started with
    pending,                \* per load: converted executions still to ingest
    returned,               \* per load: identifiers handed back so far
    minted,                 \* every identifier uuid() has produced
    executionFiles,         \* InspecDataModule: registered evaluation files
    profileFiles,           \* InspecDataModule: registered profile files
    selectedEvaluationIds,  \* FilteredDataModule: selected evaluations
    selectedProfileIds,     \* FilteredDataModule: selected profiles
    notifications,          \* SnackbarModule: failure messages emitted
    lastAttempt             \* the latest mutation attempt on a record

vars == <<call, ret, pc, opts, pending, returned, minted, executionFiles,
          profileFiles, selectedEvaluationIds, selectedProfileIds,
          notifications, lastAttempt>>

(***************************************************************************)
(* Bounds of the model.                                                    *)
(***************************************************************************)
MaxKeys == 3
MaxFalsy == 1
NumLoads == 2

(***************************************************************************)
(* Parsed JSON values.  A value is a kind plus, for objects and arrays,    *)
(* its own properties (array elements are the properties "0", "1", ...).   *)
(***************************************************************************)
NoFields == [k \in {} |-> k]

Scalar(kind) == [kind |-> kind, fields |-> NoFields]

Obj(fields) == [kind |-> "obj", fields |-> fields]

Arr(fields) == [kind |-> "arr", fields |-> fields]

Undefined == Scalar("undefined")

\* JavaScript truthiness: undefined, null, false, 0 and "" are falsy.
Truthy(v) == v.kind \notin {"undefined", "null", "false", "zero", "empty"}

\* object[key] for any value: only objects and arrays own properties here.
Prop(v, key) ==
    IF v.kind \in {"obj", "arr"} /\ key \in DOMAIN v.fields
    THEN v.fields[key]
    ELSE Undefined

\* lodash stringToPath on the fingerprint paths of the table.
stringToPath(p) ==
    CASE p = "FVDL.EngineData.EngineVersion" -> <<"FVDL", "EngineData", "EngineVersion">>
      [] p = "FVDL.UUID" -> <<"FVDL", "UUID">>
      [] p = "vulnerabilities[0].identifiers" -> <<"vulnerabilities", "0", "identifiers">>
      [] OTHER -> <<p>>

\* lodash isKey: a plain property name, or a name the object owns literally.
isKey(p, object) ==
    \/ stringToPath(p) = <<p>>
    \/ object.kind \in {"obj", "arr"} /\ p \in DOMAIN object.fields

castPath(p, object) == IF isKey(p, object) THEN <<p>> ELSE stringToPath(p)

\* lodash baseGet: walk the path while the current value is not null/undefined.
RECURSIVE baseGet(_, _)
baseGet(object, path) ==
    IF path = <<>> THEN object
    ELSE IF object.kind \in {"undefined", "null"} THEN Undefined
    ELSE baseGet(Prop(object, Head(path)), Tail(path))

\* _.get(object, path) with no default value.
Get(object, p) ==
    IF object.kind \in {"undefined", "null"} THEN Undefined
    ELSE baseGet(object, castPath(p, object))

(***************************************************************************)
(* The fingerprint table, in declaration order.                            *)
(***************************************************************************)
fileTypeFingerprints ==
    << [name |-> "fortify",
        paths |-> <<"FVDL", "FVDL.EngineData.EngineVersion", "FVDL.UUID">>],
       [name |-> "jfrog", paths |-> <<"total_count", "data">>],
       [name |-> "nikto",
        paths |-> <<"banner", "host", "ip", "port", "vulnerabilities">>],
       [name |-> "sarif", paths |-> <<"$schema", "version", "runs">>],
       [name |-> "snyk",
        paths |-> <<"projectName", "policy", "summary", "vulnerabilities",
                    "vulnerabilities[0].identifiers">>],
       [name |-> "zap", paths |-> <<"@generated", "@version", "site">>] >>

\* b[1].filter((value) => _.get(parsedJSON, value)).length
MatchCount(parsedJSON, entry) ==
    Cardinality({i \in DOMAIN entry.paths : Truthy(Get(parsedJSON, entry.paths[i]))})

\* The reduce callback: keep a only when it has strictly more matches than b.
PickKeepFirst(parsedJSON, a, b) ==
    IF MatchCount(parsedJSON, a) >= MatchCount(parsedJSON, b) THEN a ELSE b

Pick(parsedJSON, a, b) ==
    IF MatchCount(parsedJSON, a) > MatchCount(parsedJSON, b) THEN a ELSE b

\* Array.prototype.reduce without an initial value, left to right.
RECURSIVE Reduce(_, _, _, _)
Reduce(parsedJSON, entries, acc, i) ==
    IF i > Len(entries) THEN acc
    ELSE Reduce(parsedJSON, entries, Pick(parsedJSON, acc, entries[i]), i + 1)

guessType(parsedJSON) ==
    Reduce(parsedJSON, fileTypeFingerprints, fileTypeFingerprints[1], 2).name

(***************************************************************************)
(* The documents the type guesser is examined on: objects with at most     *)
(* MaxKeys top-level properties, at most MaxFalsy of them falsy, and the   *)
(* non-object documents JSON.parse can also produce.                       *)
(***************************************************************************)
FalsyKinds == {"null", "false", "zero", "empty"}

FvdlValues ==
    { Obj(f) : f \in UNION { [K -> {Scalar("str")}] : K \in SUBSET {"UUID"} } }
    \cup { Obj([EngineData |-> Obj([EngineVersion |-> Scalar(k)])]) : k \in {"str", "zero"} }
    \cup { Obj([EngineData |-> Obj([EngineVersion |-> Scalar("str")]),
                UUID |-> Scalar("str")]) }

VulnValues ==
    { Arr(NoFields),
      Arr([i \in {"0"} |-> Obj(NoFields)]),
      Arr([i \in {"0"} |-> Obj([identifiers |-> Scalar("str")])]),
      Arr([i \in {"0"} |-> Obj([identifiers |-> Scalar("zero")])]) }

GuessKeys ==
    {"FVDL", "FVDL.UUID", "total_count", "data", "banner", "host", "ip", "port",
     "vulnerabilities", "$schema", "version", "runs", "projectName", "policy",
     "summary", "@generated", "@version", "site"}

\* The truthy values a property is given: a string, or for the two nested
\* fingerprints the nested shapes above.
TruthyValuesFor(key) ==
    {Scalar("str")}
    \cup (IF key = "FVDL" THEN FvdlValues ELSE {})
    \cup (IF key = "vulnerabilities" THEN VulnValues ELSE {})

NestedKeys == {"FVDL", "vulnerabilities"}

\* The object with the properties K: those of F hold the falsy value fv, the
\* others a truthy one.
ObjDoc(K, F, fv, tv) ==
    Obj([k \in K |-> IF k \in F THEN Scalar(fv)
                     ELSE IF k \in NestedKeys THEN tv[k]
                     ELSE Scalar("str")])

TruthyChoices(S) ==
    { g \in [S -> UNION { TruthyValuesFor(k) : k \in NestedKeys }] :
        \A k \in S : g[k] \in TruthyValuesFor(k) }

NonObjectDocs == { Scalar("null"), Scalar("zero"), Scalar("str"), Arr(NoFields) }

NoRet == [kind |-> "none"]

Idle ==
    /\ pc = [p \in 1..NumLoads |-> "idle"]
    /\ opts = [p \in 1..NumLoads |-> [entry |-> "none"]]
    /\ pending = [p \in 1..NumLoads |-> <<>>]
    /\ returned = [p \in 1..NumLoads |-> <<>>]
    /\ minted = {}
    /\ executionFiles = <<>>
    /\ profileFiles = <<>>
    /\ selectedEvaluationIds = {}
    /\ selectedProfileIds = {}
    /\ notifications = 0
    /\ lastAttempt = [kind |-> "none"]

storeVars == <<pc, opts, pending, returned, minted, executionFiles,
               profileFiles, selectedEvaluationIds, selectedProfileIds,
               notifications, lastAttempt>>

(***************************************************************************)
(* Text.  A text is what JSON.parse makes of it (or that it throws) and    *)
(* the sequence of pieces it is written with; String.indexOf is computed   *)
(* from the pieces' lengths.                                               *)
(***************************************************************************)
JsonText(parsed, tokens) == [json |-> TRUE, parsed |-> parsed, tokens |-> tokens]

PlainText(tokens) == [json |-> FALSE, parsed |-> Undefined, tokens |-> tokens]

JSONParse(data) ==
    IF data.json THEN [threw |-> FALSE, value |-> data.parsed]
    ELSE [threw |-> TRUE, value |-> Undefined]

RECURSIVE Offset(_, _)
Offset(tokens, i) == IF i <= 1 THEN 0 ELSE Offset(tokens, i - 1) + Len(tokens[i - 1])

\* String.prototype.indexOf: the offset of the first occurrence, or -1.
indexOf(tokens, marker) ==
    LET hits == {i \in DOMAIN tokens : tokens[i] = marker}
    IN  IF hits = {} THEN -1
        ELSE Offset(tokens, CHOOSE i \in hits : \A j \in hits : i <= j)

\* A number used as a condition: 0 is falsy, every other index (-1 too) truthy.
TruthyNumber(n) == n # 0

toLowerCase(tokens) ==
    [i \in DOMAIN tokens |->
        CASE tokens[i] = ".NESSUS" -> ".nessus"
          [] tokens[i] = "XCCDF" -> "xccdf"
          [] tokens[i] = "Scan" -> "scan"
          [] OTHER -> tokens[i]]

endsWith(tokens, suffix) == tokens # <<>> /\ tokens[Len(tokens)] = suffix

(***************************************************************************)
(* isHDF                                                                   *)
(***************************************************************************)
isHDFByPresence(data) ==
    LET r == JSONParse(data)
        parsed == r.value
    IN  IF r.threw \/ parsed.kind = "null"
        THEN [threw |-> FALSE, value |-> FALSE]
        ELSE [threw |-> FALSE,
              value |-> \/ Prop(parsed, "profiles").kind = "arr"
                        \/ /\ Prop(parsed, "controls").kind # "undefined"
                           /\ Prop(parsed, "sha256").kind # "undefined"]

\* The try block: JSON.parse, then two property tests on the parsed value;
\* reading a property of null throws a TypeError.
isHDFTry(data) ==
    LET r == JSONParse(data)
        parsed == r.value
    IN  IF r.threw \/ parsed.kind = "null"
        THEN [threw |-> TRUE, value |-> FALSE]
        ELSE [threw |-> FALSE,
              value |-> \/ Prop(parsed, "profiles").kind = "arr"
                        \/ /\ Truthy(Prop(parsed, "controls"))
                           /\ Truthy(Prop(parsed, "sha256"))]

isHDF(data) ==
    LET t == isHDFTry(data)
    IN  IF t.threw THEN [threw |-> FALSE, value |-> FALSE] ELSE t

HdfKeys == {"profiles", "controls", "sha256", "version"}

HdfKinds == {"null", "false", "zero", "empty", "str", "arr", "obj"}

ValueOfKind(kind) ==
    CASE kind = "arr" -> Arr(NoFields)
      [] kind = "obj" -> Obj(NoFields)
      [] OTHER -> Scalar(kind)

(***************************************************************************)
(* convertToHdf                                                            *)
(***************************************************************************)
SchemaLocation == "schemaLocation=\"http://checklists.nist.gov/xccdf"

\* A transformer of hdf-converters: new Mapper(data).toHdf() throws, or gives
\* one execution or an array of executions.
toHdf(transformer, data, outcome) ==
    CASE outcome = "throws" -> [threw |-> TRUE, value |-> Undefined]
      [] outcome = "one" ->
            [threw |-> FALSE, value |-> [kind |-> "execution", by |-> transformer]]
      [] outcome = "many" ->
            [threw |-> FALSE,
             value |-> [kind |-> "array",
                        items |-> << [kind |-> "execution", by |-> transformer],
                                     [kind |-> "execution", by |-> transformer] >>]]
      [] OTHER -> [threw |-> FALSE, value |-> [kind |-> "array", items |-> <<>>]]

\* The if / else-if chain on typeGuess inside the try block.
JsonTransformer(typeGuess) ==
    CASE typeGuess = "jfrog" -> "JfrogXrayMapper"
      [] typeGuess = "zap" -> "ZapMapper"
      [] typeGuess = "nikto" -> "NiktoMapper"
      [] typeGuess = "sarif" -> "SarifMapper"
      [] typeGuess = "snyk" -> "SnykResults"
      [] OTHER -> "none"

DBProtectAllFour(data) ==
    /\ indexOf(data.tokens, "Policy") # -1
    /\ indexOf(data.tokens, "Job Name") # -1
    /\ indexOf(data.tokens, "Check ID") # -1
    /\ indexOf(data.tokens, "Result Status") # -1

\* The DBProtect condition as written: the fourth indexOf is used as a boolean.
DBProtectCondition(data) ==
    /\ indexOf(data.tokens, "Policy") # -1
    /\ indexOf(data.tokens, "Job Name") # -1
    /\ indexOf(data.tokens, "Check ID") # -1
    /\ TruthyNumber(indexOf(data.tokens, "Result Status"))

\* The Netsparker condition as written: the indexOf is used as a boolean.
NetsparkerCondition(data) ==
    TruthyNumber(indexOf(data.tokens, "netsparker-enterprise"))

\* The if / else-if chain of the catch block.
HeuristicTransformer(fileName, data) ==
    IF endsWith(toLowerCase(fileName), ".nessus") THEN "NessusResults"
    ELSE IF \/ indexOf(data.tokens, SchemaLocation) # -1
            \/ indexOf(toLowerCase(fileName), "xccdf") # -1 THEN "XCCDFResultsMapper"
    ELSE IF indexOf(data.tokens, "issues burpVersion") # -1 THEN "BurpSuiteMapper"
    ELSE IF indexOf(data.tokens, "scoutsuite_results") # -1 THEN "ScoutsuiteMapper"
    ELSE IF DBProtectCondition(data) THEN "DBProtectMapper"
    ELSE IF NetsparkerCondition(data) THEN "NetsparkerMapper"
    ELSE "none"

\* The try block: threw (to the catch), returned a value, or fell through.
convertTry(data, mapper) ==
    LET r == JSONParse(data)
        t == JsonTransformer(guessType(r.value))
        h == toHdf(t, data, mapper[1])
    IN  IF r.threw THEN [end |-> "threw", value |-> Undefined, invoked |-> <<>>]
        ELSE IF t = "none" THEN [end |-> "fell", value |-> Undefined, invoked |-> <<>>]
        ELSE IF h.threw THEN [end |-> "threw", value |-> Undefined, invoked |-> <<t>>]
        ELSE [end |-> "returned", value |-> h.value, invoked |-> <<t>>]

\* The catch block, entered with the transformers invoked so far.
convertCatch(fileName, data, mapper, invoked) ==
    LET t == HeuristicTransformer(fileName, data)
        h == toHdf(t, data, mapper[Len(invoked) + 1])
    IN  IF t = "none" THEN [end |-> "fell", value |-> Undefined, invoked |-> invoked]
        ELSE IF h.threw
             THEN [end |-> "threw", value |-> Undefined, invoked |-> Append(invoked, t)]
        ELSE [end |-> "returned", value |-> h.value, invoked |-> Append(invoked, t)]

\* convertToHdf: how it ended (threw to the caller or returned), the value
\* returned, the transformers invoked in order, the failure notifications
\* emitted, and whether JSON.parse succeeded and the catch block was entered.
convertToHdf(fileName, data, mapper) ==
    LET t == convertTry(data, mapper)
        caught == t.end = "threw"
        c == IF caught THEN convertCatch(fileName, data, mapper, t.invoked) ELSE t
    IN  [threw |-> c.end = "threw",
         value |-> c.value,
         invoked |-> c.invoked,
         notified |-> IF c.end = "fell" THEN 1 ELSE 0,
         parsedOk |-> ~JSONParse(data).threw,
         caught |-> caught]

JsonTransformers ==
    {"JfrogXrayMapper", "ZapMapper", "NiktoMapper", "SarifMapper", "SnykResults"}

HeuristicTransformers ==
    {"NessusResults", "XCCDFResultsMapper", "BurpSuiteMapper", "ScoutsuiteMapper",
     "DBProtectMapper", "NetsparkerMapper"}

Markers ==
    {SchemaLocation, "issues burpVersion", "scoutsuite_results", "Policy",
     "Job Name", "Check ID", "Result Status", "netsparker-enterprise"}

MaxTokens == 4

\* Texts of at most MaxTokens pieces, no piece twice.
TokenSeqs ==
    UNION { { q \in [1..n -> Markers \cup {"<report>"}] :
                \A i, j \in 1..n : i # j => q[i] # q[j] } : n \in 0..MaxTokens }

\* What a JSON text can hold besides its structure: markers inside strings.
JsonTokenSeqs ==
    { <<"{">>, <<"{", "netsparker-enterprise">>, <<"{", "scoutsuite_results">>,
      <<"{", "Policy", "Job Name", "Check ID", "Result Status">> }

FileNames ==
    { <<"scan", ".nessus">>, <<"Scan", ".NESSUS">>, <<"scan", ".nessus", ".bak">>,
      <<"results-", "XCCDF", ".xml">>, <<"report", ".json">> }

Outcomes == {"throws", "one", "many", "empty"}

\* The outcome of the second transformer matters only when the first throws.
Mappers == { m \in [1..2 -> Outcomes] : m[1] # "throws" => m[2] = "one" }

(***************************************************************************)
(* Specification of the type guesser: one call on any document.            *)
(***************************************************************************)
InitGuess ==
    /\ \/ \E d \in NonObjectDocs : call = [fn |-> "guessType", parsedJSON |-> d]
       \/ \E K \in SUBSET GuessKeys :
            /\ Cardinality(K) <= MaxKeys
            /\ \E F \in SUBSET K :
                /\ Cardinality(F) <= MaxFalsy
                /\ \E fv \in FalsyKinds :
                   \E tv \in TruthyChoices((K \ F) \cap NestedKeys) :
                      call = [fn |-> "guessType", parsedJSON |-> ObjDoc(K, F, fv, tv)]
    /\ ret = NoRet
    /\ Idle

CallGuessType ==
    /\ call.fn = "guessType"
    /\ ret = NoRet
    /\ ret' = [kind |-> "returned", value |-> guessType(call.parsedJSON)]
    /\ UNCHANGED <<call, storeVars>>

NextGuess == CallGuessType

SpecGuess == InitGuess /\ [][NextGuess]_vars


(***************************************************************************)
(* Specification of the format validator: one call on any text.            *)
(***************************************************************************)
InitHDF ==
    /\ \/ \E q \in TokenSeqs : Len(q) <= 1 /\ call = [fn |-> "isHDF", data |-> PlainText(q)]
       \/ \E d \in NonObjectDocs : call = [fn |-> "isHDF", data |-> JsonText(d, <<"{">>)]
       \/ \E K \in SUBSET HdfKeys : \E f \in [K -> HdfKinds] :
            call = [fn |-> "isHDF",
                    data |-> JsonText(Obj([k \in K |-> ValueOfKind(f[k])]), <<"{">>)]
    /\ ret = NoRet
    /\ Idle

CallIsHDF ==
    /\ call.fn = "isHDF"
    /\ ret = NoRet
    /\ ret' = [kind |-> "returned"] @@ isHDF(call.data)
    /\ UNCHANGED <<call, storeVars>>

NextHDF == CallIsHDF

SpecHDF == InitHDF /\ [][NextHDF]_vars

(***************************************************************************)
(* Specification of the converter dispatcher: one call on any file.        *)
(***************************************************************************)
InitConvert ==
    /\ \E n \in FileNames : \E m \in Mappers :
        \/ \E q \in TokenSeqs :
            call = [fn |-> "convertToHdf", fileName |-> n, data |-> PlainText(q),
                    mapper |-> m]
        \/ \E q \in JsonTokenSeqs :
            \/ \E d \in NonObjectDocs :
                call = [fn |-> "convertToHdf", fileName |-> n,
                        data |-> JsonText(d, q), mapper |-> m]
            \/ \E K \in SUBSET GuessKeys :
                /\ Cardinality(K) <= MaxKeys
                /\ \E tv \in TruthyChoices(K \cap NestedKeys) :
                    call = [fn |-> "convertToHdf", fileName |-> n,
                            data |-> JsonText(ObjDoc(K, {}, "null", tv), q),
                            mapper |-> m]
    /\ ret = NoRet
    /\ Idle

CallConvertToHdf ==
    /\ call.fn = "convertToHdf"
    /\ ret = NoRet
    /\ ret' = [kind |-> "returned"] @@ convertToHdf(call.fileName, call.data, call.mapper)
    /\ UNCHANGED <<call, storeVars>>

NextConvert == CallConvertToHdf

SpecConvert == InitConvert /\ [][NextConvert]_vars

(***************************************************************************)
(* Ingestion: loadFile, loadText, loadExecJson and the two stores.         *)
(***************************************************************************)
Loads == 1..NumLoads

\* The identifiers uuid() draws from in the model: enough for every load to
\* mint one and for two of them to mint a second.
IDs == 1..(NumLoads + 2)

\* uuid(): an identifier no earlier call produced, otherwise arbitrary.
ReusedIds(used) == IDs

FreshIds(used) == IDs \ used

\* obj.field = value: ignored on a frozen object.
SetProp(obj, field, value) ==
    IF obj.frozen THEN obj ELSE [obj EXCEPT ![field] = value]

FreezeNothing(obj) == obj

\* Object.freeze: the object's own properties only, not the objects they hold.
Freeze(obj) == [obj EXCEPT !.frozen = TRUE]

\* inspecjs contextualizeEvaluation / contextualizeProfile: a new, unfrozen
\* content object holding the parsed data; from_file is not set yet.
contextualize(data) ==
    [frozen |-> FALSE,
     from_file |-> 0,
     data |-> [ref |-> data, frozen |-> FALSE, version |-> "original"]]

\* The wrapper literal of loadText / loadExecJson, before its content is set.
EvalFile(fileID, filename) ==
    [uniqueId |-> fileID, filename |-> filename, frozen |-> FALSE,
     evaluation |-> contextualize("none")]

ProfileFile(fileID, filename) ==
    [uniqueId |-> fileID, filename |-> filename, frozen |-> FALSE,
     profile |-> contextualize("none")]

Stores ==
    [executionFiles |-> executionFiles,
     profileFiles |-> profileFiles,
     selectedEvaluationIds |-> selectedEvaluationIds,
     selectedProfileIds |-> selectedProfileIds]

\* InspecDataModule.addExecution / addProfile.
addExecution(st, evalFile) ==
    [st EXCEPT !.executionFiles = Append(@, evalFile)]

addProfile(st, profileFile) ==
    [st EXCEPT !.profileFiles = Append(@, profileFile)]

\* FilteredDataModule.toggle_evaluation / toggle_profile.
toggle_evaluation(st, fileID) ==
    [st EXCEPT !.selectedEvaluationIds =
        IF fileID \in @ THEN @ \ {fileID} ELSE @ \cup {fileID}]

toggle_profile(st, fileID) ==
    [st EXCEPT !.selectedProfileIds =
        IF fileID \in @ THEN @ \ {fileID} ELSE @ \cup {fileID}]

\* Back-link, set, freeze, register, select: the tail of loadExecJson and of
\* the execution branch of loadText.
IngestExecution(st, fileID, filename, data) ==
    LET evalFile == EvalFile(fileID, filename)
        evaluation == SetProp(contextualize(data), "from_file", evalFile.uniqueId)
        file == SetProp(evalFile, "evaluation", Freeze(evaluation))
    IN  toggle_evaluation(addExecution(st, file), file.uniqueId)

IngestProfile(st, fileID, filename, data) ==
    LET profileFile == ProfileFile(fileID, filename)
        profile == SetProp(contextualize(data), "from_file", profileFile.uniqueId)
        file == SetProp(profileFile, "profile", Freeze(profile))
    IN  toggle_profile(addProfile(st, file), file.uniqueId)

loadExecJson(st, fileID, filename, data) ==
    [threw |-> FALSE, stores |-> IngestExecution(st, fileID, filename, data)]

loadTextRegisterFirst(st, fileID, filename, result) ==
    [threw |-> result = "errors",
     stores |-> IF result = "1_0_ProfileJson"
                THEN IngestProfile(st, fileID, filename, result)
                ELSE IngestExecution(st, fileID, filename, result)]

\* loadText after uuid() and convertFile: result is the key convertFile filled
\* ("1_0_ExecJson", "1_0_ProfileJson") or "errors".
loadText(st, fileID, filename, result) ==
    CASE result = "1_0_ExecJson" ->
            [threw |-> FALSE, stores |-> IngestExecution(st, fileID, filename, result)]
      [] result = "1_0_ProfileJson" ->
            [threw |-> FALSE, stores |-> IngestProfile(st, fileID, filename, result)]
      [] OTHER -> [threw |-> TRUE, stores |-> st]

\* inspecjs convertFile: which shape the multi-version parser recognizes.
ConversionResults == {"1_0_ExecJson", "1_0_ProfileJson", "errors"}

Upload(fileName, data, mapper) == [fileName |-> fileName, data |-> data, mapper |-> mapper]

Uploads ==
    { Upload(<<"report", ".json">>,
             JsonText(Obj([profiles |-> Arr(NoFields)]), <<"{">>),
             <<"one", "one">>),
      Upload(<<"report", ".json">>,
             JsonText(ObjDoc({"projectName", "policy", "summary"}, {}, "null", <<>>), <<"{">>),
             <<"one", "one">>),
      Upload(<<"scan", ".nessus">>, PlainText(<<"<report>">>), <<"many", "one">>),
      Upload(<<"report", ".json">>, PlainText(<<"netsparker-enterprise">>),
             <<"one", "one">>),
      Upload(<<"report", ".json">>, PlainText(<<"<report>">>), <<"throws", "one">>) }

Init ==
    /\ call = [fn |-> "none"]
    /\ ret = NoRet
    /\ Idle

SetStores(st) ==
    /\ executionFiles' = st.executionFiles
    /\ profileFiles' = st.profileFiles
    /\ selectedEvaluationIds' = st.selectedEvaluationIds
    /\ selectedProfileIds' = st.selectedProfileIds

storesUnchanged ==
    UNCHANGED <<executionFiles, profileFiles, selectedEvaluationIds, selectedProfileIds>>

\* What the callers pass: loadFile any upload; loadText the text of an upload
\* that is JSON; loadExecJson an execution object under an upload's file name.
CallOptions ==
    { [entry |-> "loadFile", upload |-> u] : u \in Uploads }
    \cup { [entry |-> "loadText", upload |-> u] :
              u \in { v \in Uploads : v.data.json /\ v.mapper[1] = "one" } }
    \cup { [entry |-> "loadExecJson", upload |-> u] :
              u \in { v \in Uploads : v.mapper[1] = "many" } }

\* A caller starts one of the three entry points.
Start(p) ==
    /\ pc[p] = "idle"
    /\ \E o \in CallOptions :
        /\ opts' = [opts EXCEPT ![p] = o]
        /\ pc' = [pc EXCEPT ![p] =
                    CASE o.entry = "loadFile" -> "reading"
                      [] o.entry = "loadText" -> "loadText"
                      [] OTHER -> "loadExecJson"]
        /\ pending' = [pending EXCEPT ![p] =
                          IF o.entry = "loadExecJson"
                          THEN << [kind |-> "execution", by |-> "caller"] >>
                          ELSE <<>>]
    /\ storesUnchanged
    /\ UNCHANGED <<call, ret, returned, minted, notifications, lastAttempt>>

\* loadFile: await read_file_async(options.file).
ReadFile(p) ==
    /\ pc[p] = "reading"
    /\ pc' = [pc EXCEPT ![p] = "isHDF"]
    /\ storesUnchanged
    /\ UNCHANGED <<call, ret, opts, pending, returned, minted, notifications, lastAttempt>>

\* loadFile: await this.isHDF(read), then the branch on its answer.
CheckHDF(p) ==
    /\ pc[p] = "isHDF"
    /\ pc' = [pc EXCEPT ![p] =
                IF isHDF(opts[p].upload.data).value THEN "loadText" ELSE "convert"]
    /\ storesUnchanged
    /\ UNCHANGED <<call, ret, opts, pending, returned, minted, notifications, lastAttempt>>

\* loadFile: await this.convertToHdf(...), then the branch on what it gave.
Convert(p) ==
    /\ pc[p] = "convert"
    /\ LET u == opts[p].upload
           r == convertToHdf(u.fileName, u.data, u.mapper)
           items == IF r.threw \/ r.value.kind = "undefined" THEN <<>>
                    ELSE IF r.value.kind = "array" THEN r.value.items
                    ELSE <<r.value>>
       IN  /\ notifications' = notifications + r.notified
           /\ pending' = [pending EXCEPT ![p] = items]
           /\ pc' = [pc EXCEPT ![p] =
                        IF r.threw THEN "failedConvert"
                        ELSE IF items = <<>> THEN "done"
                        ELSE "loadExecJson"]
    /\ storesUnchanged
    /\ UNCHANGED <<call, ret, opts, returned, minted, lastAttempt>>

\* One call of loadExecJson, on the next converted execution of the load.
LoadExecJson(p) ==
    /\ pc[p] = "loadExecJson"
    /\ pending[p] # <<>>
    /\ \E fileID \in FreshIds(minted) :
        LET r == loadExecJson(Stores, fileID, opts[p].upload.fileName, Head(pending[p]))
        IN  /\ minted' = minted \cup {fileID}
            /\ SetStores(r.stores)
            /\ returned' = [returned EXCEPT ![p] = Append(@, fileID)]
    /\ pending' = [pending EXCEPT ![p] = Tail(@)]
    /\ pc' = [pc EXCEPT ![p] = IF Tail(pending[p]) = <<>> THEN "done" ELSE "loadExecJson"]
    /\ UNCHANGED <<call, ret, opts, notifications, lastAttempt>>

\* One call of loadText: uuid(), convertFile, then register or throw.
LoadText(p) ==
    /\ pc[p] = "loadText"
    /\ \E fileID \in FreshIds(minted) : \E result \in ConversionResults :
        LET r == loadText(Stores, fileID, opts[p].upload.fileName, result)
        IN  /\ minted' = minted \cup {fileID}
            /\ SetStores(r.stores)
            /\ returned' = [returned EXCEPT ![p] = IF r.threw THEN @ ELSE Append(@, fileID)]
            /\ pc' = [pc EXCEPT ![p] = IF r.threw THEN "failedLoadText" ELSE "done"]
    /\ UNCHANGED <<call, ret, opts, pending, notifications, lastAttempt>>

\* The steps of the load p.
Load(p) ==
    \/ Start(p)
    \/ ReadFile(p)
    \/ CheckHDF(p)
    \/ Convert(p)
    \/ LoadExecJson(p)
    \/ LoadText(p)

\* Any number of loads in flight, their steps interleaved.
Next == \E p \in Loads : Load(p)

Spec == Init /\ [][Next]_vars

(***************************************************************************)
(* Holders of a registered record trying to change it.  A registered file  *)
(* is named by its store and its position there.                           *)
(***************************************************************************)
Registered ==
    { <<"evaluation", i>> : i \in DOMAIN executionFiles }
    \cup { <<"profile", i>> : i \in DOMAIN profileFiles }

FileAt(t) == IF t[1] = "evaluation" THEN executionFiles[t[2]] ELSE profileFiles[t[2]]

ContentOf(file) ==
    IF "evaluation" \in DOMAIN file THEN file.evaluation ELSE file.profile

\* The same wrapper object, seen after its content object was written to.
WithContent(file, content) ==
    IF "evaluation" \in DOMAIN file
    THEN [file EXCEPT !.evaluation = content]
    ELSE [file EXCEPT !.profile = content]

PutFile(t, file) ==
    /\ executionFiles' =
          IF t[1] = "evaluation" THEN [executionFiles EXCEPT ![t[2]] = file]
          ELSE executionFiles
    /\ profileFiles' =
          IF t[1] = "profile" THEN [profileFiles EXCEPT ![t[2]] = file]
          ELSE profileFiles

loadVars == <<call, ret, pc, opts, pending, returned, minted,
              selectedEvaluationIds, selectedProfileIds, notifications>>

\* content.from_file = <another wrapper>, or content.data = <another object>.
MutateContent(t) ==
    /\ t \in Registered
    /\ \E field \in {"from_file", "data"} :
        LET content == ContentOf(FileAt(t))
            value == IF field = "from_file" THEN 0
                     ELSE [ref |-> "replaced", frozen |-> FALSE, version |-> "original"]
            after == SetProp(content, field, value)
        IN  /\ PutFile(t, WithContent(FileAt(t), after))
            /\ lastAttempt' = [kind |-> "content", applied |-> after # content]
    /\ UNCHANGED loadVars

\* content.data.version = "tampered": a write to the nested object.
MutateNested(t) ==
    /\ t \in Registered
    /\ LET content == ContentOf(FileAt(t))
           after == SetProp(content.data, "version", "tampered")
       IN  /\ after # content.data
           /\ PutFile(t, WithContent(FileAt(t), [content EXCEPT !.data = after]))
           /\ lastAttempt' = [kind |-> "nested", applied |-> TRUE]
    /\ UNCHANGED loadVars

\* content.from_file.filename = "renamed": a write to the file wrapper.
MutateWrapper(t) ==
    /\ t \in Registered
    /\ LET after == SetProp(FileAt(t), "filename", <<"renamed">>)
       IN  /\ after # FileAt(t)
           /\ PutFile(t, after)
           /\ lastAttempt' = [kind |-> "wrapper", applied |-> TRUE]
    /\ UNCHANGED loadVars

\* One load, and holders writing to what it registered.
NextFreeze ==
    \/ Load(1)
    \/ \E t \in Registered : MutateContent(t)
    \/ \E t \in Registered : MutateNested(t)
    \/ \E t \in Registered : MutateWrapper(t)

SpecFreeze == Init /\ [][NextFreeze]_vars

(***************************************************************************)
(* Properties of the type guesser (SpecGuess).                             *)
(***************************************************************************)
Formats == DOMAIN fileTypeFingerprints

Guessed == call.fn = "guessType" /\ ret.kind = "returned"

\* The formats that share the greatest match count on the document.
Best(doc) ==
    LET count == [i \in Formats |-> MatchCount(doc, fileTypeFingerprints[i])]
    IN  { i \in Formats : \A j \in Formats : count[i] >= count[j] }

Tied(doc) == Cardinality(Best(doc)) >= 2

\* The number of a format's fingerprint paths whose value is not undefined.
PresentCount(doc, entry) ==
    Cardinality({i \in DOMAIN entry.paths :
                    Get(doc, entry.paths[i]).kind # "undefined"})

\* C1 as stated: when two or more formats share the greatest match count,
\* guessType returns the one declared earliest in fileTypeFingerprints
\* (fortify when nothing matches at all).
C1_EarliestDeclaredWinsTie ==
    (Guessed /\ Tied(call.parsedJSON)) =>
        \E i \in Best(call.parsedJSON) :
            /\ \A j \in Best(call.parsedJSON) : i <= j
            /\ ret.value = fileTypeFingerprints[i].name

\* C1 amended: when two or more formats share the greatest match count,
\* guessType returns the one declared latest in fileTypeFingerprints; a
\* document matching no fingerprint path yields the last format, zap.
C1_LatestDeclaredWinsTie ==
    Guessed =>
        LET best == Best(call.parsedJSON)
        IN  Cardinality(best) >= 2 =>
                /\ \E i \in best :
                    /\ \A j \in best : i >= j
                    /\ ret.value = fileTypeFingerprints[i].name
                /\ (best = Formats /\ MatchCount(call.parsedJSON, fileTypeFingerprints[1]) = 0)
                      => ret.value = "zap"

\* A tie between formats that do match something, settled for the later one.
C1_Witness ==
    /\ Guessed
    /\ Tied(call.parsedJSON)
    /\ \E i \in Best(call.parsedJSON) :
          /\ MatchCount(call.parsedJSON, fileTypeFingerprints[i]) >= 1
          /\ ret.value # fileTypeFingerprints[i].name
    /\ ret.value # "zap"

\* C2 as stated: a format with strictly more fingerprint paths resolving to
\* a value that is not undefined (0, false, "" and null count as present)
\* than every other format is the one guessType returns.
C2_StrictMaxByPresence ==
    Guessed =>
        \A i \in Formats :
            (\A j \in Formats \ {i} :
                PresentCount(call.parsedJSON, fileTypeFingerprints[i])
                    > PresentCount(call.parsedJSON, fileTypeFingerprints[j]))
            => ret.value = fileTypeFingerprints[i].name

(***************************************************************************)
(* Properties of the format validator (SpecHDF).                           *)
(***************************************************************************)
Validated == call.fn = "isHDF" /\ ret.kind = "returned"

Has(v, key) == v.kind \in {"obj", "arr"} /\ key \in DOMAIN v.fields

HasArrayProfiles(v) == Has(v, "profiles") /\ v.fields["profiles"].kind = "arr"

FalsyValueKinds == {"null", "false", "zero", "empty"}

\* C3 as stated: isHDF never throws, answers false on text that is not JSON,
\* and on JSON answers true exactly when the value has an array profiles
\* property or has both a controls and a sha256 property, whatever their values.
C3_AnyControlsAndSha ==
    Validated =>
        /\ ~ret.threw
        /\ ret.value =
              /\ call.data.json
              /\ \/ HasArrayProfiles(call.data.parsed)
                 \/ Has(call.data.parsed, "controls") /\ Has(call.data.parsed, "sha256")

\* C3 amended: isHDF never throws, answers false on text that is not JSON,
\* and on JSON answers true exactly when the value has an array profiles
\* property or has a controls and a sha256 property whose values are both
\* truthy (neither null, false, 0 nor the empty string).
C3_TruthyControlsAndSha ==
    Validated =>
        /\ ~ret.threw
        /\ ret.value =
              /\ call.data.json
              /\ \/ HasArrayProfiles(call.data.parsed)
                 \/ /\ Has(call.data.parsed, "controls")
                    /\ Has(call.data.parsed, "sha256")
                    /\ call.data.parsed.fields["controls"].kind \notin FalsyValueKinds
                    /\ call.data.parsed.fields["sha256"].kind \notin FalsyValueKinds

\* A profile-shaped document without array profiles is accepted, and one
\* whose sha256 is falsy would not be.
C3_Witness ==
    /\ Validated
    /\ call.data.json
    /\ ~HasArrayProfiles(call.data.parsed)
    /\ Has(call.data.parsed, "controls")
    /\ Has(call.data.parsed, "sha256")
    /\ ret.value = TRUE

(***************************************************************************)
(* Properties of the converter dispatcher (SpecConvert).                   *)
(***************************************************************************)
Converted == call.fn = "convertToHdf" /\ ret.kind = "returned"

InvokedSet == { ret.invoked[i] : i \in DOMAIN ret.invoked }

\* C4 as stated: when the data parses as JSON, an error thrown by the selected
\* transformer reaches the caller with no second transformer invoked and no
\* notification; the heuristic transformers are invoked only when JSON.parse threw.
C4_TransformerErrorPropagates ==
    (Converted /\ call.data.json) =>
        /\ InvokedSet \cap HeuristicTransformers = {}
        /\ (ret.invoked # <<>> /\ call.mapper[1] = "throws") =>
              /\ ret.threw
              /\ Len(ret.invoked) = 1
              /\ ret.notified = 0

NoMarker(data) ==
    /\ indexOf(data.tokens, SchemaLocation) = -1
    /\ indexOf(data.tokens, "issues burpVersion") = -1
    /\ indexOf(data.tokens, "scoutsuite_results") = -1
    /\ ~DBProtectAllFour(data)
    /\ indexOf(data.tokens, "netsparker-enterprise") = -1

PlainFileName(fileName) ==
    /\ ~endsWith(toLowerCase(fileName), ".nessus")
    /\ indexOf(toLowerCase(fileName), "xccdf") = -1

\* C5 as stated: text that is not JSON, under a file name without the .nessus
\* extension and without xccdf, holding none of the markers, invokes no
\* transformer, emits exactly one failure notification and does not throw.
C5_NoMatchNotifiesOnce ==
    (Converted /\ ~call.data.json /\ PlainFileName(call.fileName) /\ NoMarker(call.data)) =>
        /\ ret.invoked = <<>>
        /\ ret.notified = 1
        /\ ~ret.threw

\* C6 as stated: when the data parses as JSON (and the transformer does not
\* throw), exactly one transformer is invoked, the one of the guessed format,
\* and its result is returned unchanged, whatever format guessType returns.
C6_JsonDispatchesGuessedFormat ==
    (Converted /\ call.data.json /\ call.mapper[1] # "throws") =>
        /\ Len(ret.invoked) = 1
        /\ ret.invoked[1] \in JsonTransformers
        /\ ~ret.threw
        /\ ret.value = toHdf(ret.invoked[1], call.data, call.mapper[1]).value
        /\ ret.notified = 0

HigherPriorityBranch(fileName, data) ==
    \/ ~PlainFileName(fileName)
    \/ indexOf(data.tokens, SchemaLocation) # -1
    \/ indexOf(data.tokens, "issues burpVersion") # -1
    \/ indexOf(data.tokens, "scoutsuite_results") # -1

\* C7 as stated: in the heuristic phase, with no higher-priority branch
\* matching, the DBProtect transformer is invoked exactly when the text holds
\* all four markers Policy, Job Name, Check ID and Result Status, wherever.
C7_DBProtectIffAllFour ==
    (Converted /\ ~call.data.json /\ ~HigherPriorityBranch(call.fileName, call.data)) =>
        ("DBProtectMapper" \in InvokedSet) = DBProtectAllFour(call.data)

(***************************************************************************)
(* Properties of the ingestion (Spec, SpecFreeze).                         *)
(***************************************************************************)
AllFiles == executionFiles \o profileFiles

RECURSIVE ReturnedUpTo(_)
ReturnedUpTo(n) == IF n = 0 THEN <<>> ELSE ReturnedUpTo(n - 1) \o returned[n]

AllReturned == ReturnedUpTo(NumLoads)

\* C8: under any interleaving of loads, all registered identifiers are pairwise
\* distinct, every returned identifier is registered exactly once and is
\* selected, no identifier is returned twice, and there are as many registered
\* records as successful ingestions; no entry is overwritten or deselected.
C8_IdentifiersUnique ==
    /\ \A i, j \in DOMAIN AllFiles : i # j => AllFiles[i].uniqueId # AllFiles[j].uniqueId
    /\ \A i, j \in DOMAIN AllReturned : i # j => AllReturned[i] # AllReturned[j]
    /\ \A k \in DOMAIN AllReturned :
          Cardinality({i \in DOMAIN AllFiles : AllFiles[i].uniqueId = AllReturned[k]}) = 1
    /\ Len(AllFiles) = Len(AllReturned)
    /\ selectedEvaluationIds = { executionFiles[i].uniqueId : i \in DOMAIN executionFiles }
    /\ selectedProfileIds = { profileFiles[i].uniqueId : i \in DOMAIN profileFiles }

\* Two finished loads of the same file, each converted into two executions.
C8_Witness ==
    \E p, q \in Loads :
        /\ p # q
        /\ pc[p] = "done" /\ pc[q] = "done"
        /\ opts[p] = opts[q]
        /\ Len(returned[p]) = 2 /\ Len(returned[q]) = 2

\* C9 as stated: once registered, no part of a record changes any more:
\* neither the content object, nor what is nested in it, nor its file wrapper.
C9_NoPartEverChanges ==
    [][\A t \in Registered : FileAt(t)' = FileAt(t)]_vars

\* C9 amended: a registered record's content object is frozen and back-linked
\* to its own wrapper, and no later attempt changes a property of the content
\* object itself (from_file, data); the freeze is shallow, so the objects
\* nested in the content and the file wrapper stay writable.
C9_ContentObjectFrozen ==
    /\ [](\A t \in Registered :
            /\ ContentOf(FileAt(t)).frozen
            /\ ContentOf(FileAt(t)).from_file = FileAt(t).uniqueId)
    /\ [](lastAttempt.kind = "content" => ~lastAttempt.applied)
    /\ [][\A t \in Registered :
            /\ ContentOf(FileAt(t))'.from_file = ContentOf(FileAt(t)).from_file
            /\ ContentOf(FileAt(t))'.data.ref = ContentOf(FileAt(t)).data.ref]_vars

\* A write to a property of a registered content object was attempted.
C9_Witness ==
    /\ Registered # {}
    /\ lastAttempt.kind = "content"

StoresNow == <<executionFiles, profileFiles, selectedEvaluationIds, selectedProfileIds>>

\* C10: when loadText throws because neither an execution nor a profile is
\* recognized, the load fails as a whole, an identifier was minted, and the
\* registration and selection stores are exactly as before the call.
C10_FailedLoadTextLeavesStores ==
    /\ [][\A p \in Loads :
            (pc[p] = "loadText" /\ pc'[p] = "failedLoadText") =>
                /\ StoresNow' = StoresNow
                /\ returned' = returned
                /\ minted' # minted]_vars
    /\ [](\A p \in Loads : pc[p] = "failedLoadText" => returned[p] = <<>>)

\* A loadFile that reached loadText failed after another load had registered.
C10_Witness ==
    \E p, q \in Loads :
        /\ pc[p] = "failedLoadText"
        /\ opts[p].entry = "loadFile"
        /\ pc[q] = "done"
        /\ returned[q] # <<>>
        /\ Len(AllFiles) = Len(returned[q])
        /\ Cardinality(minted) > Len(AllFiles)

====
